---- MODULE Spec2Model ----
(***************************************************************************)
(* Model of experimental/SR/module_SR.py: the SRSingleModule training      *)
(* module (construction, the three step callbacks, the three data          *)
(* transform factories) and the DataTransform sample transform.            *)
(*                                                                         *)
(* Tensor shapes are kept at their true sizes (pairs <<rows, cols>>).      *)
(* Tensor contents are kept for tensors of NPix (low-resolution image) and *)
(* NTPix (target) elements, run-length encoded: a tensor is a sequence of  *)
(* runs [v |-> value, c |-> number of elements holding it].  Real numbers  *)
(* are fixed point: an image value is an integer number of eps = 1e-11     *)
(* units, a normalized value is the exact fraction                         *)
(* [n |-> numerator, d |-> denominator] with d > 0.                        *)
(* The Fourier transforms change contents but never shapes; the content    *)
(* of the low-resolution magnitude image is therefore an input of the      *)
(* model (any non-negative tensor), as are the outputs of the network.     *)
(***************************************************************************)
EXTENDS Integers, Sequences, FiniteSets, TLC

VARIABLES module, transform, sample, stepOut, raised

vars == <<module, transform, sample, stepOut, raised>>

----------------------------------------------------------------------------
(* Bounds of the model *)

NPix == 49         \* elements of the low-resolution image whose content is kept
NTPix == 2         \* elements of the target whose content is kept
MaxBase == 20      \* largest background value of a low-resolution image
MaxT == 100        \* largest value of a target element

(* Program constants *)

DefaultScale == 2      \* DataTransform.__init__(..., scale=2)
DefaultCrop == 320     \* 320//self.scale
Eps == 1               \* eps=1e-11, the unit of the fixed-point image values
ClampMax == 6          \* clamp(-6, 6)

----------------------------------------------------------------------------
(* Inputs *)

ModelNames == {"IDN", "Unet", "MINet"}
ModuleScales == {2, 4}
\* the challenge a module is built for, and the one given to a DataTransform
\* built directly; "singlcoil" is a misspelling
ModuleChallenges == {"singlecoil", "singlcoil"}
Challenges == {"multicoil", "singlcoil"}
MaskTypes == {"random"}
Scales == {1, 3, DefaultCrop + 1}

\* spatial shape <<rows, cols>> of the k-space (shape[-3], shape[-2] of the
\* complex tensor)
KSpaceShapes == {<<640, 368>>, <<640, 203>>, <<640, 100>>, <<256, 368>>}
TargetShapes == {<<320, 320>>, <<100, 100>>, <<100, 320>>}
ReconSizes == {<<320, 320>>, <<100, 100>>}

\* the slices of the dataset: <<fname, slice_num>>
Slices == {<<"file1.h5", 0>>, <<"file2.h5", 1>>}

NoTarget == [present |-> FALSE]

\* a low-resolution magnitude image: one element bg + delta, the others bg
LRImages ==
    { <<[v |-> p[1] + p[2] * NPix, c |-> 1], [v |-> p[1], c |-> NPix - 1]>> :
        p \in {<<0, 0>>, <<0, 2>>, <<MaxBase, 0>>} }

\* the elements of a target that its centre crop keeps
TargetImages ==
    { <<[v |-> a, c |-> 1], [v |-> b, c |-> NTPix - 1]>> :
        <<a, b>> \in {<<0, 1>>, <<1, MaxT>>} }

\* the values the network returns, one per element
NetOutputs == { <<[v |-> c, c |-> NTPix]>> : c \in {0, 1} }

----------------------------------------------------------------------------
(* Arithmetic helpers *)

RECURSIVE SumSeq(_)
SumSeq(s) == IF s = <<>> THEN 0 ELSE Head(s) + SumSeq(Tail(s))

\* number of elements of a tensor
Size(t) == SumSeq([r \in 1..Len(t) |-> t[r].c])

\* the i-th element of a tensor
RECURSIVE At(_, _)
At(t, i) == IF i <= Head(t).c THEN Head(t).v ELSE At(Tail(t), i - Head(t).c)

\* a tensor with f applied to every element
Map(f(_), t) == [r \in 1..Len(t) |-> [v |-> f(t[r].v), c |-> t[r].c]]

Abs(x) == IF x < 0 THEN -x ELSE x

ISqrt(n) == CHOOSE r \in 0..n : r * r <= n /\ (r + 1) * (r + 1) > n

\* torch.Tensor.mean, rounded down to the fixed-point unit
Mean(data) == SumSeq([r \in 1..Len(data) |-> data[r].v * data[r].c]) \div Size(data)

\* torch.Tensor.std (unbiased: n - 1), rounded down to the fixed-point unit
Std(data) ==
    LET m == Mean(data)
        sq == [r \in 1..Len(data) |->
                  (data[r].v - m) * (data[r].v - m) * data[r].c]
    IN  ISqrt(SumSeq(sq) \div (Size(data) - 1))

----------------------------------------------------------------------------
(* fastmri.data.transforms, as far as DataTransform uses it *)

\* complex_center_crop / center_crop: the centred sub-region of the given
\* size of a larger array; a size that is not positive or exceeds the array
\* raises.
CropFits(dataShape, shape) ==
    /\ 0 < shape[1] /\ shape[1] <= dataShape[1]
    /\ 0 < shape[2] /\ shape[2] <= dataShape[2]

\* normalize(data, mean, stddev, eps): (data - mean) / (stddev + eps)
normalize(data, mean, std, eps) ==
    LET f(x) == [n |-> x - mean, d |-> std + eps] IN Map(f, data)

----------------------------------------------------------------------------
(* Tensor.clamp(-6, 6) on a fraction; the denominator is kept *)

ClampUpperOnly(q) ==
    IF q.n > ClampMax * q.d THEN [n |-> ClampMax * q.d, d |-> q.d] ELSE q

Clamp(q) ==
    IF q.n > ClampMax * q.d THEN [n |-> ClampMax * q.d, d |-> q.d]
    ELSE IF q.n < (-ClampMax) * q.d THEN [n |-> (-ClampMax) * q.d, d |-> q.d]
    ELSE q

ClampAll(t) == Map(Clamp, t)

\* x * std + mean, as validation_step and test_step denormalize
Denormalize(t, mean, std) ==
    LET f(x) == [n |-> x.n * std + mean * x.d, d |-> x.d] IN Map(f, t)

----------------------------------------------------------------------------
(* SRSingleModule.__init__ *)

ModelRecognizedAny(model) == TRUE

ModelRecognized(model) == model = "IDN"

\* IDN(scale=scale, image_features=1, fblock_num_features=16,
\*     num_features=64, d=16, s=4)
IDN(scale) ==
    [arch |-> "IDN", scale |-> scale, image_features |-> 1,
     fblock_num_features |-> 16, num_features |-> 64, d |-> 16, s |-> 4]

NoModel == [arch |-> "unset"]

NoModule == [status |-> "absent"]
NoTransform == [status |-> "absent"]
NoSample == [status |-> "none"]
NoStep == [step |-> "none"]
NoError == [type |-> "none"]

\* an exception nothing catches ends the run
Running == raised.type = "none" /\ sample.status # "raised"

NewModule(model, scale, challenge, mask_type) ==
    [status |-> "constructed",
     challenge |-> challenge,
     mask_type |-> mask_type,
     model |-> IF model = "IDN" THEN IDN(scale) ELSE NoModel]

SRSingleModuleInit(model, scale, challenge, mask_type) ==
    IF ModelRecognized(model)
    THEN /\ module' = NewModule(model, scale, challenge, mask_type)
         /\ raised' = NoError
         /\ UNCHANGED <<transform, sample, stepOut>>
    ELSE /\ raised' = [type |-> "ValueError", msg |-> "Unrecognized model",
                       arg |-> model]
         /\ UNCHANGED <<module, transform, sample, stepOut>>

----------------------------------------------------------------------------
(* DataTransform.__init__ *)

ChallengeSupportedAny(which_challenge) == TRUE

ChallengeSupported(which_challenge) ==
    which_challenge \in {"singlecoil", "multicoil"}

DataTransformInit(args, origin) ==
    IF ~ChallengeSupported(args.which_challenge)
    THEN /\ raised' = [type |-> "ValueError", msg |-> "Challenge should either be",
                       arg |-> args.which_challenge]
         /\ UNCHANGED <<module, transform, sample, stepOut>>
    ELSE /\ transform' = [status |-> "constructed",
                          mask_func |-> args.mask_func,
                          which_challenge |-> args.which_challenge,
                          use_seed |-> args.use_seed,
                          scale |-> args.scale,
                          origin |-> origin]
         /\ sample' = NoSample
         /\ stepOut' = NoStep
         /\ raised' = NoError
         /\ UNCHANGED module

NewDataTransform(which_challenge, scale) ==
    DataTransformInit([which_challenge |-> which_challenge, mask_func |-> "None",
                       use_seed |-> TRUE, scale |-> scale], "direct")

----------------------------------------------------------------------------
(* SRSingleModule.train_data_transform / val_data_transform /
   test_data_transform *)

create_mask_for_mask_type(mask_type) == "MaskFunc:" \o mask_type

train_data_transform_scaled(self) ==
    [which_challenge |-> self.challenge,
     mask_func |-> create_mask_for_mask_type(self.mask_type),
     use_seed |-> FALSE, scale |-> self.model.scale]

train_data_transform(self) ==
    [which_challenge |-> self.challenge,
     mask_func |-> create_mask_for_mask_type(self.mask_type),
     use_seed |-> FALSE, scale |-> DefaultScale]

val_data_transform(self) ==
    [which_challenge |-> self.challenge,
     mask_func |-> create_mask_for_mask_type(self.mask_type),
     use_seed |-> TRUE, scale |-> DefaultScale]

test_data_transform(self) ==
    [which_challenge |-> self.challenge, mask_func |-> "None",
     use_seed |-> TRUE, scale |-> DefaultScale]

TrainDataTransform ==
    /\ Running
    /\ module.status = "constructed"
    /\ DataTransformInit(train_data_transform(module), "train_data_transform")

ValDataTransform ==
    /\ Running
    /\ module.status = "constructed"
    /\ DataTransformInit(val_data_transform(module), "val_data_transform")

TestDataTransform ==
    /\ Running
    /\ module.status = "constructed"
    /\ DataTransformInit(test_data_transform(module), "test_data_transform")

----------------------------------------------------------------------------
(* DataTransform.__call__ *)

\* crop input to correct size, and the check for sFLAIR 203
CropSizeFirstDim(imageShape, target, attrs) ==
    LET crop_size == IF target.present THEN target.shape ELSE attrs.recon_size
    IN  IF imageShape[2] < crop_size[1]
        THEN <<imageShape[2], imageShape[2]>>
        ELSE crop_size

CropSize(imageShape, target, attrs) ==
    LET crop_size == IF target.present THEN target.shape ELSE attrs.recon_size
    IN  IF imageShape[2] < crop_size[2]
        THEN <<imageShape[2], imageShape[2]>>
        ELSE crop_size

\* (320//self.scale, 320//self.scale)
LRShapeCeil(scale) ==
    <<(DefaultCrop + scale - 1) \div scale, (DefaultCrop + scale - 1) \div scale>>

LRShape(scale) == <<DefaultCrop \div scale, DefaultCrop \div scale>>

\* torch.Tensor([0])
Placeholder == <<[v |-> [n |-> 0, d |-> 1], c |-> 1]>>

Raise(at, kspace, target, attrs, crop_size) ==
    [status |-> "raised", at |-> at, kspace |-> kspace,
     target_present |-> target.present,
     target_shape |-> IF target.present THEN target.shape ELSE <<0, 0>>,
     attrs |-> attrs, crop_size |-> crop_size]

\* The sample __call__ returns, or the record of the step that raised.
\* magnitude is the content of complex_abs(LR_image) before normalization.
Transformed(self, kspace, target, attrs, fname, slice_num, magnitude) ==
    LET image == kspace
        crop_size == CropSize(image, target, attrs)
        lr_shape == LRShape(self.scale)
        mean == Mean(magnitude)
        std == Std(magnitude)
        LR_image == ClampAll(normalize(magnitude, mean, std, Eps))
    IN  IF ~CropFits(image, crop_size)
        THEN Raise("complex_center_crop(image)", kspace, target, attrs, crop_size)
        ELSE IF ~CropFits(crop_size, lr_shape)
        THEN Raise("complex_center_crop(imgfft)", kspace, target, attrs, crop_size)
        ELSE IF target.present /\ ~CropFits(target.shape, crop_size)
        THEN Raise("center_crop(target)", kspace, target, attrs, crop_size)
        ELSE [status |-> "returned",
              args |-> [kspace |-> kspace, target |-> target, attrs |-> attrs,
                        fname |-> fname, slice_num |-> slice_num],
              crop_size |-> crop_size,
              magnitude |-> magnitude,
              LR_shape |-> lr_shape,
              LR_image |-> LR_image,
              target_shape |-> IF target.present THEN crop_size ELSE <<1>>,
              target |-> IF target.present
                         THEN ClampAll(normalize(target.data, mean, std, Eps))
                         ELSE Placeholder,
              mean |-> mean,
              std |-> std,
              fname |-> fname,
              slice_num |-> slice_num]

\* The content arguments are read only by a call that returns.
Call ==
    /\ Running
    /\ transform.status = "constructed"
    /\ \E kspace \in KSpaceShapes, attrs \in [recon_size : ReconSizes],
          target \in {NoTarget} \cup
                     [present : {TRUE}, shape : TargetShapes, data : TargetImages],
          slice \in Slices, magnitude \in LRImages :
          \* recon_size is not read when there is a target
          /\ target.present => attrs.recon_size = <<DefaultCrop, DefaultCrop>>
          /\ sample' = Transformed(transform, kspace, target, attrs, slice[1],
                                   slice[2], magnitude)
    /\ stepOut' = NoStep
    /\ raised' = NoError
    /\ UNCHANGED <<module, transform>>

----------------------------------------------------------------------------
(* SRSingleModule.forward and the step callbacks, on a batch of one sample *)

\* the network's output for the batch, as fractions
forward(net_output) == LET f(x) == [n |-> x, d |-> 1] IN Map(f, net_output)

\* F.l1_loss(a, b): mean of |a - b|, b broadcast when it holds one element;
\* every element of b has the denominator of its first
l1_loss(a, b) ==
    LET D == b[1].v.d
        bAt(i) == At(b, IF Size(b) = 1 THEN 1 ELSE i)
        diff == [i \in 1..Size(a) |-> Abs(At(a, i).n * D - bAt(i).n * At(a, i).d)]
    IN  [n |-> SumSeq(diff), d |-> D * Size(a)]

\* int(hashlib.sha256(fn.encode("utf-8")).hexdigest(), 16) % 10**12, kept
\* symbolic
HashFName(fn) == <<"sha256 % 10**12", fn>>

TrainingStep ==
    /\ Running
    /\ module.status = "constructed"
    /\ sample.status = "returned"
    /\ \E net_output \in NetOutputs :
          LET srimage == forward(net_output)
              loss == l1_loss(srimage, sample.target)
          IN  stepOut' = [step |-> "training_step", loss |-> loss,
                          log |-> [loss |-> loss]]
    /\ raised' = NoError
    /\ UNCHANGED <<module, transform, sample>>

ValidationStep ==
    /\ Running
    /\ module.status = "constructed"
    /\ sample.status = "returned"
    /\ \E net_output \in NetOutputs :
          LET srimage == forward(net_output)
              output == srimage
          IN  stepOut' =
                [step |-> "validation_step",
                 fname |-> <<HashFName(sample.fname)>>,
                 slice |-> sample.slice_num,
                 output |-> Denormalize(output, sample.mean, sample.std),
                 target |-> Denormalize(sample.target, sample.mean, sample.std),
                 input |-> Denormalize(sample.LR_image, sample.mean, sample.std),
                 val_loss |-> l1_loss(output, sample.target)]
    /\ raised' = NoError
    /\ UNCHANGED <<module, transform, sample>>

TestStep ==
    /\ Running
    /\ module.status = "constructed"
    /\ sample.status = "returned"
    /\ \E net_output \in NetOutputs :
          LET output == forward(net_output)
          IN  stepOut' =
                [step |-> "test_step",
                 fname |-> sample.fname,
                 slice |-> sample.slice_num,
                 output |-> Denormalize(output, sample.mean, sample.std)]
    /\ raised' = NoError
    /\ UNCHANGED <<module, transform, sample>>

----------------------------------------------------------------------------
(* The program *)

Init ==
    /\ module = NoModule
    /\ transform = NoTransform
    /\ sample = NoSample
    /\ stepOut = NoStep
    /\ raised = NoError

NewSRSingleModule ==
    /\ Running
    /\ \E model \in ModelNames, scale \in ModuleScales,
          challenge \in ModuleChallenges, mask_type \in MaskTypes :
          SRSingleModuleInit(model, scale, challenge, mask_type)

NewDataTransformDirect ==
    /\ Running
    /\ \E which_challenge \in Challenges, scale \in Scales :
          NewDataTransform(which_challenge, scale)

Next ==
    \/ NewSRSingleModule
    \/ NewDataTransformDirect
    \/ TrainDataTransform
    \/ ValDataTransform
    \/ TestDataTransform
    \/ Call
    \/ TrainingStep
    \/ ValidationStep
    \/ TestStep

Spec == Init /\ [][Next]_vars

----------------------------------------------------------------------------
(* Helpers of the properties *)

Called == sample.status \in {"returned", "raised"}

CallKSpace == IF sample.status = "returned" THEN sample.args.kspace ELSE sample.kspace

CallHasTarget ==
    IF sample.status = "returned" THEN sample.args.target.present
    ELSE sample.target_present

CallTargetShape ==
    IF sample.status = "returned" THEN sample.args.target.shape
    ELSE sample.target_shape

CallReconSize ==
    IF sample.status = "returned" THEN sample.args.attrs.recon_size
    ELSE sample.attrs.recon_size

\* the crop size before the check for sFLAIR 203
CallRequestedCrop == IF CallHasTarget THEN CallTargetShape ELSE CallReconSize

InRange(q) == (-ClampMax) * q.d <= q.n /\ q.n <= ClampMax * q.d

StrictlyInRange(q) == (-ClampMax) * q.d < q.n /\ q.n < ClampMax * q.d

\* the fraction q is the fixed-point value x
IsValue(q, x) == q.n = x * q.d

FactoryMade ==
    /\ transform.status = "constructed"
    /\ transform.origin \in {"train_data_transform", "val_data_transform",
                             "test_data_transform"}

----------------------------------------------------------------------------
(* C1: every low-resolution image that DataTransform.__call__ returns has
   spatial dimensions floor(320/scale) x floor(320/scale), whatever crop size
   was chosen for the full-resolution image. *)
C1_LRShape ==
    sample.status = "returned" =>
        /\ sample.LR_shape = <<DefaultCrop \div transform.scale,
                               DefaultCrop \div transform.scale>>
        /\ CropFits(sample.crop_size, sample.LR_shape)

C1_Witness ==
    /\ sample.status = "returned"
    /\ transform.scale = 3
    /\ sample.crop_size = <<203, 203>>
    /\ sample.LR_shape = <<106, 106>>

(* C2: a call with the default scale whose target is smaller than 320x320,
   on an image that holds the target, returns a sample: neither the crop of
   the image, nor the Fourier-domain crop to 320//scale, nor the crop of the
   target raises. *)
C2_SmallTargetReturns ==
    ( /\ Called
      /\ transform.scale = DefaultScale
      /\ CallHasTarget
      /\ CallTargetShape[1] < DefaultCrop \/ CallTargetShape[2] < DefaultCrop
      /\ CropFits(CallKSpace, CallTargetShape) )
    => sample.status = "returned"

(* C3, as stated: the crop size of every call is the target's shape when a
   target is present and attrs' recon_size when it is absent. *)
C3_CropIsRequested == sample.status = "returned" => sample.crop_size = CallRequestedCrop

(* C3, amended: the crop size of every call is the target's shape (recon_size
   without a target), unless the image's shape[-2] is smaller than that crop
   size's second component: then it is the square of the image's shape[-2]. *)
C3_CropSize ==
    Called =>
        sample.crop_size =
            IF CallKSpace[2] < CallRequestedCrop[2]
            THEN <<CallKSpace[2], CallKSpace[2]>>
            ELSE CallRequestedCrop

C3_Witness ==
    /\ sample.status = "returned"
    /\ sample.args.target.present
    /\ sample.args.target.shape = <<320, 320>>
    /\ sample.args.kspace = <<640, 203>>
    /\ sample.crop_size = <<203, 203>>

(* C4: after validation_step on a sample whose std is 0, every element of
   the denormalized target and input that was not clamped at -6 or 6 equals
   its value before normalization. *)
C4_RoundTrip ==
    (stepOut.step = "validation_step" /\ sample.std = 0) =>
        /\ \A r \in 1..Len(sample.LR_image) :
              StrictlyInRange(sample.LR_image[r].v) =>
                  IsValue(stepOut.input[r].v, sample.magnitude[r].v)
        /\ sample.args.target.present =>
              \A r \in 1..Len(sample.target) :
                  StrictlyInRange(sample.target[r].v) =>
                      IsValue(stepOut.target[r].v, sample.args.target.data[r].v)

(* C5: every element of a returned low-resolution image and of a returned
   target lies in [-6, 6], and both are the clamped normalization of their
   input with the mean and the std of the low-resolution image. *)
C5_Clamped ==
    sample.status = "returned" =>
        /\ sample.mean = Mean(sample.magnitude)
        /\ sample.std = Std(sample.magnitude)
        /\ \A r \in 1..Len(sample.LR_image) :
              /\ InRange(sample.LR_image[r].v)
              /\ LET q == [n |-> sample.magnitude[r].v - sample.mean,
                           d |-> sample.std + Eps]
                 IN  sample.LR_image[r].v =
                        IF InRange(q) THEN q
                        ELSE [n |-> (IF q.n > 0 THEN ClampMax ELSE -ClampMax) * q.d,
                              d |-> q.d]
        /\ sample.args.target.present =>
              \A r \in 1..Len(sample.target) :
                  /\ InRange(sample.target[r].v)
                  /\ LET q == [n |-> sample.args.target.data[r].v - sample.mean,
                               d |-> sample.std + Eps]
                     IN  sample.target[r].v =
                            IF InRange(q) THEN q
                            ELSE [n |-> (IF q.n > 0 THEN ClampMax ELSE -ClampMax) * q.d,
                                  d |-> q.d]

C5_Witness ==
    /\ sample.status = "returned"
    /\ sample.args.target.present
    /\ \E r \in 1..Len(sample.LR_image) :
          /\ (sample.magnitude[r].v - sample.mean) > ClampMax * (sample.std + Eps)
          /\ IsValue(sample.LR_image[r].v, ClampMax)
    /\ \E r \in 1..Len(sample.target) :
          /\ (sample.args.target.data[r].v - sample.mean) > ClampMax * (sample.std + Eps)
          /\ IsValue(sample.target[r].v, ClampMax)

(* C7: a call with the default scale and no target, on an image that holds
   attrs' recon_size, returns: its target is the one-element tensor holding
   0, and fname and slice_num are the ones given. *)
C7_NoTargetReturns ==
    ( /\ Called
      /\ ~CallHasTarget
      /\ transform.scale = DefaultScale
      /\ CropFits(CallKSpace, CallReconSize) ) =>
        /\ sample.status = "returned"
        /\ sample.target = Placeholder
        /\ sample.fname = sample.args.fname
        /\ sample.slice_num = sample.args.slice_num

(* C8: a module exists only with the IDN architecture selected, a step runs
   only on such a module, and the error of the constructor names a model
   other than "IDN". *)
C8_ModelSelected ==
    /\ module.status = "constructed" => module.model.arch = "IDN"
    /\ stepOut.step # "none" =>
          module.status = "constructed" /\ module.model.arch = "IDN"
    /\ (raised.type = "ValueError" /\ raised.msg = "Unrecognized model") =>
          raised.arg # "IDN"

C8_Witness ==
    /\ raised.type = "ValueError"
    /\ raised.msg = "Unrecognized model"
    /\ raised.arg = "Unet"
    /\ module.status = "absent"

(* C9: a DataTransform exists, and __call__ runs, only with which_challenge
   "singlecoil" or "multicoil"; the error of the constructor names another
   challenge and leaves no transform behind, and __call__ never raises it. *)
C9_ChallengeChecked ==
    /\ transform.status = "constructed" =>
          transform.which_challenge \in {"singlecoil", "multicoil"}
    /\ Called =>
          /\ transform.status = "constructed"
          /\ transform.which_challenge \in {"singlecoil", "multicoil"}
    /\ sample.status = "raised" =>
          /\ raised.type = "none"
          /\ sample.at \in {"complex_center_crop(image)",
                            "complex_center_crop(imgfft)", "center_crop(target)"}
    /\ (raised.type = "ValueError" /\ raised.msg = "Challenge should either be") =>
          raised.arg \notin {"singlecoil", "multicoil"}

C9_Witness ==
    /\ raised.type = "ValueError"
    /\ raised.msg = "Challenge should either be"
    /\ raised.arg = "singlcoil"
    /\ transform.status = "absent"

(* C10: a transform made by train_data_transform, val_data_transform or
   test_data_transform has scale 2 and returns 160 x 160 low-resolution
   images, whatever the scale of the module's model; it equals the model's
   scale only when that is 2. *)
C10_FactoryScale ==
    FactoryMade =>
        /\ transform.scale = DefaultScale
        /\ sample.status = "returned" =>
              sample.LR_shape = <<DefaultCrop \div DefaultScale,
                                  DefaultCrop \div DefaultScale>>
        /\ (module.status = "constructed" /\ module.model.scale # DefaultScale) =>
              transform.scale # module.model.scale

C10_Witness ==
    /\ FactoryMade
    /\ module.status = "constructed"
    /\ module.model.scale = 4
    /\ transform.scale = 2
    /\ sample.status = "returned"
    /\ sample.LR_shape = <<160, 160>>

====
